---- MODULE Spec2Model ----
(***************************************************************************)
(* Model of the scene-composition and master-render pipeline of            *)
(* src/src/video_editor.py (VideoEditor.process_scene,                     *)
(* VideoEditor.render_final_video and its watermark placement).            *)
(* Single blocks of it (the filter before the concatenation, the music     *)
(* mix, the final validation), esperar_archivo and the visual check of     *)
(* src/main.py are also run on their own, each under its own specification.*)
(*                                                                         *)
(* Time is counted in tenths of a second: a duration of 10 is one second.  *)
(* A media clip is a record; the Python value None is the record None.     *)
(***************************************************************************)
EXTENDS Integers, Sequences, FiniteSets, TLC

(***************************************************************************)
(* Bounds of the model.                                                    *)
(***************************************************************************)
\* number of scenes of a render job: 1..MaxScenes
MaxScenes == 3
\* narration and music lengths: 1..MaxDur seconds
MaxDur == 2
\* words returned by the alignment step for one scene: 0..MaxWords
MaxWords == 2
\* the `intentos` argument of esperar_archivo: 0..MaxTries
MaxTries == 3

(***************************************************************************)
(* Program constants.                                                      *)
(***************************************************************************)
\* words_per_line = 5
words_per_line == 5
\* min_duration <= 0.2 disables the crossfade
MinCrossfadeClip == 2
\* effective_music_volume = 0.1 (percent)
DuckingGain == 10
\* overlay_duration = min(3.0, ...) of the subscribe overlay
SubscribeMax == 30
\* overlay_duration > 0.2
SubscribeMin == 2

VARIABLES
    \* ---- one call of process_scene on its own (specification SpecScene)
    sc_pc,          \* "call" | "returned"
    sc_scene,       \* the scene's files and alignment output
    sc_opts,        \* [use_subtitles, textOK]
    sc_result,      \* the value process_scene returned
    \* ---- one render job (specification Spec)
    pc,             \* position inside render_final_video
    scenes,         \* the job's scenes: files under assets/temp, by index
    idx,            \* loop index of the scene loop (0-based, as in the code)
    clips,          \* process_scene results, None included
    final_clips,    \* clips that passed the first filter
    full_audio_clips,       \* durations of the loaded audio_{idx}.mp3
    full_audio_track,       \* TRUE when the master narration track exists
    total_audio_duration,   \* T
    video_only_clips,       \* the clips handed to concatenate_videoclips
    crossfade_enabled,
    effective_crossfade,
    total_video_duration,   \* V, later the conformed duration
    loops_needed,           \* 0 when the looping branch was not taken
    looped_duration,        \* duration of looped_video_temp before the trim
    music,                  \* the music layer that was mixed in, or None
    final_audio_composite,  \* [present, duration, music]: the mixed master audio
    final_clip,             \* [duration, audio, intro, outro, subscribe, watermark]
    encodes,                \* number of write_videofile invocations
    error,                  \* "none" or the error the job raised
    transition_sfx,         \* None or [duration, starts]: the effects mixed in
    open_handles,           \* media handles opened and not yet closed
    \* ---- one call of _compute_position on its own (specification SpecPosition)
    wm_pc,          \* "call" | "returned"
    wm_input,       \* [position, canvas, element]
    wm_position,    \* the (pos_x, pos_y) it returned
    \* ---- one call of a helper or of one block on its own (specifications
    \* ---- SpecFilter, SpecComposite, SpecMix, SpecWait, SpecGenerate, SpecRepair)
    fn_pc,          \* "call" | "returned", or the position inside the helper
    fn_input,       \* the arguments of the call
    fn_result       \* what the call returned or raised

sceneVars == <<sc_pc, sc_scene, sc_opts, sc_result>>
jobVars == <<pc, scenes, idx, clips, final_clips, full_audio_clips, full_audio_track,
             total_audio_duration, video_only_clips, crossfade_enabled,
             effective_crossfade, total_video_duration, loops_needed, looped_duration,
             music, final_audio_composite, final_clip, encodes, error, transition_sfx,
             open_handles>>
markVars == <<wm_pc, wm_input, wm_position>>
unitVars == <<fn_pc, fn_input, fn_result>>
vars == <<sceneVars, jobVars, markVars, unitVars>>

(***************************************************************************)
(* Helpers.                                                                *)
(***************************************************************************)
Min(a, b) == IF a <= b THEN a ELSE b
Max(a, b) == IF a >= b THEN a ELSE b

RECURSIVE SumSeq(_)
SumSeq(s) == IF s = <<>> THEN 0 ELSE Head(s) + SumSeq(Tail(s))

RECURSIVE MinSeq(_)
MinSeq(s) == IF Len(s) = 1 THEN Head(s) ELSE Min(Head(s), MinSeq(Tail(s)))

RECURSIVE SelectSeqOf(_, _)
\* the subsequence of s at the positions whose flag in keep is TRUE
SelectSeqOf(s, keep) ==
    IF s = <<>> THEN <<>>
    ELSE (IF Head(keep) THEN <<Head(s)>> ELSE <<>>) \o SelectSeqOf(Tail(s), Tail(keep))

\* lengths, in tenths of a second, of 1..MaxDur seconds
Durs == {10 * d : d \in 1..MaxDur}

None == [kind |-> "None"]

(***************************************************************************)
(* Caption Layout Engine.                                                  *)
(***************************************************************************)
\* one timed text overlay per word; TextClip raises when ImageMagick is missing
\* (textOK = FALSE) and the word is skipped
generate_karaoke_subtitles(words, textOK) ==
    IF words = <<>> \/ ~textOK THEN <<>>
    ELSE [i \in 1..Len(words) |->
            [kind |-> "text",
             start |-> words[i].start,
             duration |-> words[i].end - words[i].start,
             active |-> (i % words_per_line = 0 \/ i = Len(words))]]

\* a fallback caption that always lasts one second
StaticSubtitleOfOneSecond(duration, textOK) ==
    IF textOK
    THEN [kind |-> "text", start |-> 0, duration |-> 10, active |-> FALSE]
    ELSE None

\* one overlay from 0 lasting `duration`, or None when TextClip raises
create_static_subtitle(duration, textOK) ==
    IF textOK
    THEN [kind |-> "text", start |-> 0, duration |-> duration, active |-> FALSE]
    ELSE None

(***************************************************************************)
(* Scene Assembler.                                                        *)
(***************************************************************************)
\* the caption overlays process_scene ends up with (use_karaoke = use_subtitles,
\* as render_final_video calls it)
subtitle_clips_list(scene, opts) ==
    IF ~opts.use_subtitles THEN <<>>
    ELSE LET karaoke == generate_karaoke_subtitles(scene.words, opts.textOK)
         IN  IF karaoke # <<>> THEN karaoke
             ELSE IF scene.text
                  THEN LET static_subtitle ==
                               create_static_subtitle(scene.audio_dur, opts.textOK)
                       IN  IF static_subtitle # None THEN <<static_subtitle>> ELSE <<>>
                  ELSE <<>>

\* the local names of process_scene that are bound when the image branch runs;
\* final_width and final_height are assigned only further down
LocalsBoundAtImageBranch ==
    {"scene", "idx", "target_width", "target_height", "audio_file", "video_file",
     "is_image", "audio_duration", "subtitle_clips_list", "video_size"}

\* the image branch: the arguments of create_dynamic_image_clip are evaluated first;
\* reading an unbound local raises, the except clause returns None
ImageBranchClip(scene) ==
    IF {"final_width", "final_height"} \subseteq LocalsBoundAtImageBranch
    THEN [kind |-> "image", start |-> 0, duration |-> scene.audio_dur]
    ELSE None

\* the layers of the scene composite: only None and attribute-less layers are removed
valid_layers(layers) == SelectSeq(layers, LAMBDA l : l # None)

\* a scene composite that ends with its background instead of its narration
SceneDurationOfBackground(video_duration, clip_duration) == clip_duration

\* video_clip.set_duration(video_duration): the scene clip lasts as long as its narration
SceneDuration(video_duration, clip_duration) == video_duration

\* the outcome of a call that raised instead of returning
Raised == [kind |-> "Raised"]

\* a handler that lets the exception through to the caller
SceneExceptReraise(outcome) == outcome

\* the outermost except clause of process_scene: log, close, return None
SceneExcept(outcome) == IF outcome = Raised THEN None ELSE outcome

\* the try block of process_scene; scene.fault names the library call that raises
process_scene_try(scene, i, opts) ==
    IF scene.fault = "audio_load" THEN Raised
    ELSE LET video_duration == scene.audio_dur
             original_video_clip ==
                 IF scene.visual = "image" THEN ImageBranchClip(scene)
                 ELSE IF scene.fault = "video_load" THEN None
                 ELSE [kind |-> "video", start |-> 0, duration |-> scene.visual_dur]
         IN  IF original_video_clip = None THEN None
             ELSE IF video_duration <= 0 THEN None
             ELSE IF original_video_clip.duration <= 0 THEN None
             ELSE IF scene.fault = "compose" THEN None
             ELSE LET clip_duration == Min(video_duration, original_video_clip.duration)
                      background_clip ==
                          [original_video_clip EXCEPT !.duration = clip_duration]
                      layers == <<background_clip>> \o subtitle_clips_list(scene, opts)
                  IN  [kind |-> "scene",
                       index |-> i,
                       duration |-> SceneDuration(video_duration, clip_duration),
                       layers |-> valid_layers(layers)]

process_scene(scene, i, opts) ==
    IF ~scene.audio_exists THEN None
    ELSE IF scene.visual = "none" THEN None
    ELSE SceneExcept(process_scene_try(scene, i, opts))

(***************************************************************************)
(* Inputs.                                                                 *)
(***************************************************************************)
WordTimes == {0, 5, 10}
\* a word of the alignment output never ends before it starts
Words == {w \in [start : WordTimes, end : WordTimes] : w.start <= w.end}
WordLists == UNION {[1..n -> Words] : n \in 0..MaxWords}

\* the library call of process_scene that raises: AudioFileClip, VideoFileClip,
\* CompositeVideoClip or set_duration; "none": no call raises
Faults == {"none", "audio_load", "video_load", "compose"}

\* every scene process_scene is checked on, one at a time
SceneInputs ==
    [audio_exists : BOOLEAN, audio_dur : {0} \cup Durs,
     visual : {"none", "image", "video"}, visual_dur : {0, 10, 10 * (MaxDur + 1)},
     words : WordLists, text : BOOLEAN, fault : Faults]

SceneOpts == [use_subtitles : BOOLEAN, textOK : BOOLEAN]

(***************************************************************************)
(* Specification SpecScene: one call of process_scene.                     *)
(***************************************************************************)
MarkIdle == wm_pc = "idle" /\ wm_input = None /\ wm_position = None

UnitIdle == fn_pc = "idle" /\ fn_input = None /\ fn_result = None

JobIdle ==
    /\ pc = "idle" /\ scenes = <<>> /\ idx = 0 /\ clips = <<>> /\ final_clips = <<>>
    /\ full_audio_clips = <<>> /\ full_audio_track = FALSE /\ total_audio_duration = 0
    /\ video_only_clips = <<>> /\ crossfade_enabled = FALSE /\ effective_crossfade = 0
    /\ total_video_duration = 0 /\ loops_needed = 0 /\ looped_duration = 0
    /\ music = None /\ final_audio_composite = None /\ final_clip = None
    /\ encodes = 0 /\ error = "none" /\ transition_sfx = None /\ open_handles = {}

InitScene ==
    /\ sc_pc = "call"
    /\ sc_scene \in {s \in SceneInputs :
                        /\ (~s.audio_exists => s.audio_dur = 0)
                        /\ (s.visual # "video" => s.visual_dur = 0)}
    /\ sc_opts \in SceneOpts
    /\ sc_result = None
    /\ JobIdle
    /\ MarkIdle
    /\ UnitIdle

SceneAssemble ==
    /\ sc_pc = "call"
    /\ sc_result' = process_scene(sc_scene, 0, sc_opts)
    /\ sc_pc' = "returned"
    /\ UNCHANGED <<sc_scene, sc_opts, jobVars, markVars, unitVars>>

NextScene == SceneAssemble

SpecScene == InitScene /\ [][NextScene]_vars

(***************************************************************************)
(* Watermark placement: _compute_position, in pixels.                      *)
(***************************************************************************)
\* margin_x = 50
margin_x == 50
\* margin_y = 100
margin_y == 100
\* target_width_img = min(int(final_width * 0.35), watermark_img.w), in percent
WatermarkImageShare == 35

\* (pos_x, pos_y) of an element of element_w x element_h on the final canvas; the
\* widths of the model are even, so that the centred x is a whole number
_compute_position(watermark_position, final_width, final_height, element_w, element_h) ==
    IF watermark_position = "bottom-right"
    THEN <<final_width - element_w - margin_x, final_height - element_h - margin_y>>
    ELSE IF watermark_position = "top-center"
    THEN <<(final_width - element_w) \div 2, margin_y>>
    ELSE IF watermark_position = "bottom-left"
    THEN <<margin_x, final_height - element_h - margin_y>>
    ELSE IF watermark_position = "top-right"
    THEN <<final_width - element_w - margin_x, margin_y>>
    ELSE <<final_width - element_w - margin_x, final_height - element_h - margin_y>>

\* the size of the watermark element: an image is resized to at most 35% of the
\* canvas width, keeping its proportions; a generated text keeps the size it renders at
WatermarkElementSize(kind, final_width, w, h) ==
    IF kind = "image"
    THEN LET target_width_img == Min((final_width * WatermarkImageShare) \div 100, w)
         IN  <<target_width_img, (h * target_width_img) \div w>>
    ELSE <<w, h>>

\* (final_width, final_height) of a render job
Canvases == {<<1080, 1920>>, <<1920, 1080>>, <<720, 1280>>}

\* watermark_position as the dashboard offers it, and a value it does not know
WatermarkPositions == {"bottom-right", "top-center", "bottom-left", "top-right", "center"}

\* size of logo.png, or of the text rendered from watermark_text
ElementWidths == {120, 400, 640, 1100}
ElementHeights == {40, 68, 400, 1900}

WatermarkInputs ==
    [position : WatermarkPositions, canvas : Canvases, kind : {"image", "text"},
     w : ElementWidths, h : ElementHeights]

InitPosition ==
    /\ wm_pc = "call"
    /\ wm_input \in WatermarkInputs
    /\ wm_position = None
    /\ sc_pc = "idle" /\ sc_scene = None /\ sc_opts = None /\ sc_result = None
    /\ JobIdle
    /\ UnitIdle

ComputePosition ==
    /\ wm_pc = "call"
    /\ LET size == WatermarkElementSize(wm_input.kind, wm_input.canvas[1],
                                        wm_input.w, wm_input.h)
       IN  wm_position' = _compute_position(wm_input.position, wm_input.canvas[1],
                                            wm_input.canvas[2], size[1], size[2])
    /\ wm_pc' = "returned"
    /\ UNCHANGED <<wm_input, sceneVars, jobVars, unitVars>>

NextPosition == ComputePosition

SpecPosition == InitPosition /\ [][NextPosition]_vars

(***************************************************************************)
(* Master Renderer and Audio Mixer: render_final_video, step by step.      *)
(***************************************************************************)
\* captions are on and TextClip works in the render jobs of Spec
JobOpts == [use_subtitles |-> TRUE, textOK |-> TRUE]

\* the scenes of a render job; a scene without narration is dropped before its
\* visual is looked at, the jobs take it without one
JobScenes ==
    {s \in SceneInputs :
        /\ s.words = <<>> /\ s.text /\ s.fault = "none"
        /\ (s.audio_exists <=> s.audio_dur > 0)
        /\ s.visual \in {"none", "video"}
        /\ (~s.audio_exists => s.visual = "none")
        /\ s.visual_dur = (IF s.visual = "video" THEN 10 ELSE 0)}

\* (use_crossfade, crossfade_duration) of a render job
CrossfadeConfigs ==
    {[use_crossfade |-> FALSE, crossfade_duration |-> 5],
     [use_crossfade |-> TRUE, crossfade_duration |-> 5],
     [use_crossfade |-> TRUE, crossfade_duration |-> 10 * MaxDur]}

\* length of the background music file; 0: no music
MusicDurs == {0, 5, 10 * (MaxScenes * MaxDur + 1)}

\* length of assets/sfx/transition.mp3; 0: no such file
SfxDurs == {0, 5 * (MaxDur + 1)}

\* length of a branding clip (intro.mp4, outro.mp4); 0: no such file
BrandDurs == {0, 10}

Idle ==
    /\ sc_pc = "idle" /\ sc_scene = None /\ sc_opts = None /\ sc_result = None

Init ==
    /\ Idle
    /\ MarkIdle
    /\ UnitIdle
    /\ pc = "scenes"
    /\ scenes \in UNION {[1..n -> JobScenes] : n \in 1..MaxScenes}
    /\ idx = 0 /\ clips = <<>> /\ final_clips = <<>>
    /\ full_audio_clips = <<>> /\ full_audio_track = FALSE /\ total_audio_duration = 0
    /\ video_only_clips = <<>> /\ crossfade_enabled = FALSE /\ effective_crossfade = 0
    /\ total_video_duration = 0 /\ loops_needed = 0 /\ looped_duration = 0
    /\ music = None /\ final_audio_composite = None /\ final_clip = None
    /\ encodes = 0 /\ error = "none" /\ transition_sfx = None /\ open_handles = {}

\* media handles: <<kind, n>>, n the scene index, 0 for the job's own files
SceneHandles(clip, i) ==
    IF clip = None THEN {}
    ELSE {<<"clip", i>>, <<"original_video", i>>, <<"original_audio", i>>}

\* the handles a list of durations of loaded audio files stands for
NarrationHandles(audio_clips) == {<<"narration", k - 1>> : k \in 1..Len(audio_clips)}

\* for clip in clips: clip.close()
CloseClips(handles) == {h \in handles : h[1] # "clip"}

\* the except clause of render_final_video: the scene clips are closed and the error
\* is raised to the caller
RaiseHolding(e, handles) ==
    /\ pc' = "failed"
    /\ error' = e
    /\ open_handles' = CloseClips(handles)

Raise(e) == RaiseHolding(e, open_handles)

\* a result list kept newest first
CollectClipFirst(cs, clip) == <<clip>> \o cs

\* clips.append(clip): results are kept in scene index order
CollectClip(cs, clip) == Append(cs, clip)

\* except Exception around the call of process_scene: clips.append(None)
SceneOrNone(outcome) == IF outcome = Raised THEN None ELSE outcome

\* one iteration of the scene loop
ProcessScene ==
    /\ pc = "scenes" /\ idx < Len(scenes)
    /\ LET clip == SceneOrNone(process_scene(scenes[idx + 1], idx, JobOpts))
       IN  /\ clips' = CollectClip(clips, clip)
           /\ open_handles' = open_handles \cup SceneHandles(clip, idx)
    /\ idx' = idx + 1
    /\ UNCHANGED <<sceneVars, markVars, unitVars, pc, scenes, final_clips, full_audio_clips,
                   full_audio_track, total_audio_duration, video_only_clips,
                   crossfade_enabled, effective_crossfade, total_video_duration,
                   loops_needed, looped_duration, music, final_audio_composite,
                   final_clip, encodes, error, transition_sfx>>

\* the filter every clip list goes through: not None, duration > 0
ValidClip(c) == c # None /\ c.duration > 0

\* a job that never checks what survived the filter
NoValidClipsUnchecked(cs) == FALSE

\* len(final_clips) == 0, not video_only_clips: nothing is left to render
NoValidClips(cs) == Len(cs) = 0

FilterClips ==
    /\ pc = "scenes" /\ idx = Len(scenes)
    /\ final_clips' = SelectSeq(clips, ValidClip)
    /\ IF NoValidClips(final_clips') THEN Raise("NoValidScenes")
                              ELSE pc' = "audio" /\ UNCHANGED <<error, open_handles>>
    /\ UNCHANGED <<sceneVars, markVars, unitVars, scenes, idx, clips, full_audio_clips,
                   full_audio_track, total_audio_duration, video_only_clips,
                   crossfade_enabled, effective_crossfade, total_video_duration,
                   loops_needed, looped_duration, music, final_audio_composite,
                   final_clip, encodes, transition_sfx>>

\* the audio files the master track is built from: audio_{idx}.mp3 of every idx in
\* range(len(scenes)) whose file exists
MasterAudioFiles(ss) ==
    LET keep == [i \in 1..Len(ss) |-> ss[i].audio_exists]
        durs == [i \in 1..Len(ss) |-> ss[i].audio_dur]
    IN  SelectSeqOf(durs, keep)

LoadAudio ==
    /\ pc = "audio"
    /\ full_audio_clips' = MasterAudioFiles(scenes)
    /\ LET valid_audio_clips == SelectSeq(full_audio_clips', LAMBDA d : d > 0)
       IN  /\ full_audio_track' = (valid_audio_clips # <<>>)
           /\ total_audio_duration' = SumSeq(valid_audio_clips)
    /\ open_handles' = open_handles \cup NarrationHandles(full_audio_clips')
    /\ pc' = "concat"
    /\ UNCHANGED <<sceneVars, markVars, unitVars, scenes, idx, clips, final_clips, video_only_clips,
                   crossfade_enabled, effective_crossfade, total_video_duration,
                   loops_needed, looped_duration, music, final_audio_composite,
                   final_clip, encodes, error, transition_sfx>>

\* duration of concatenate_videoclips(clips, method="compose", padding=p): the
\* library shifts every entry of the cumulative time table, the end included
concatenate_videoclips(durations, padding) ==
    Max(0, SumSeq(durations) + padding * Len(durations))

\* the crossfade length render_final_video uses for clips whose shortest is min_duration
EffectiveCrossfade(crossfade_duration, min_duration) ==
    IF crossfade_duration >= min_duration
    THEN Max(1, (min_duration * 4) \div 10)
    ELSE crossfade_duration

Concatenate ==
    /\ pc = "concat"
    /\ \E cf \in CrossfadeConfigs, concat_ok \in BOOLEAN :
         LET voc == SelectSeq(final_clips, ValidClip)
             durations == [i \in 1..Len(voc) |-> voc[i].duration]
             wanted == cf.use_crossfade /\ Len(voc) > 1
             enabled == wanted /\ MinSeq(durations) > MinCrossfadeClip
             eff == IF enabled
                    THEN EffectiveCrossfade(cf.crossfade_duration, MinSeq(durations))
                    ELSE cf.crossfade_duration
         IN  /\ video_only_clips' = voc
             /\ crossfade_enabled' = enabled
             /\ effective_crossfade' = eff
             /\ IF NoValidClips(voc) THEN
                    Raise("NoValidScenes") /\ UNCHANGED total_video_duration
                ELSE IF ~concat_ok THEN
                    Raise("ConcatFailed") /\ UNCHANGED total_video_duration
                ELSE
                    /\ total_video_duration' =
                           concatenate_videoclips(durations, IF enabled THEN -eff ELSE 0)
                    /\ pc' = "conform" /\ UNCHANGED <<error, open_handles>>
    /\ UNCHANGED <<sceneVars, markVars, unitVars, scenes, idx, clips, final_clips, full_audio_clips,
                   full_audio_track, total_audio_duration, loops_needed, looped_duration,
                   music, final_audio_composite, final_clip, encodes, transition_sfx>>

\* whole repetitions without the extra one
LoopsNeededFloor(T, V) == T \div V

\* loops_needed = int(total_audio_duration / total_video_duration) + 1
LoopsNeeded(T, V) == (T \div V) + 1

\* loop or trim the concatenated visuals against the master narration
Conform ==
    /\ pc = "conform"
    /\ IF full_audio_track /\ total_video_duration < total_audio_duration THEN
           /\ loops_needed' = LoopsNeeded(total_audio_duration, total_video_duration)
           /\ looped_duration' = loops_needed' * total_video_duration
           /\ total_video_duration' = total_audio_duration
       ELSE IF full_audio_track /\ total_video_duration > total_audio_duration THEN
           /\ total_video_duration' = total_audio_duration
           /\ UNCHANGED <<loops_needed, looped_duration>>
       ELSE UNCHANGED <<total_video_duration, loops_needed, looped_duration>>
    /\ final_clip' = [kind |-> "final", duration |-> total_video_duration',
                      audio |-> FALSE, subscribe |-> FALSE, intro |-> 0, outro |-> 0,
                      watermark |-> FALSE]
    /\ pc' = "music"
    /\ UNCHANGED <<sceneVars, markVars, unitVars, scenes, idx, clips, final_clips, full_audio_clips,
                   full_audio_track, total_audio_duration, video_only_clips,
                   crossfade_enabled, effective_crossfade, music, final_audio_composite,
                   encodes, error, transition_sfx, open_handles>>

\* the music layer for a music file of length m against target_duration: when shorter,
\* int(target_duration / m) + 1 copies cut by subclip(0, target_duration), otherwise
\* the clip as loaded
MusicLayer(m, target_duration) ==
    IF m < target_duration
    THEN target_duration
    ELSE m

\* the gain applied to the music when it is set from the music_volume argument alone
effective_music_volume_as_configured(narration, music_volume) ==
    IF music_volume > 0 THEN music_volume ELSE 100

\* effective_music_volume in percent: 0.1 under a narration, otherwise
\* music_volume if music_volume > 0 else 1.0
effective_music_volume(narration, music_volume) ==
    IF narration
    THEN DuckingGain
    ELSE IF music_volume > 0 THEN music_volume ELSE 100

\* final_audio_composite after the background-music block.
\*   narration: full_audio_track, None or [kind |-> "narration", duration]
\*   target_duration: total_audio_duration under a narration, else total_video_duration
\*   background_music: [file, duration]; file is "absent" (no path given or no such file),
\*      "unreadable" (AudioFileClip raises) or "loaded"; a file of length 0 makes
\*      int(target_duration / music_clip.duration) raise ZeroDivisionError
\*   fault: "loop" (concatenate_audioclips raises), "composite" (CompositeAudioClip
\*      raises) or "none"
mix_background_music(narration, target_duration, background_music, music_volume, fault) ==
    LET has_voice == narration # None
        m == background_music.duration
    IN  IF background_music.file = "absent" THEN narration
        ELSE IF \/ background_music.file = "unreadable"
                \/ (m < target_duration /\ (m = 0 \/ fault = "loop"))
        THEN \* except Exception: only a job without narration loses its audio
             IF has_voice THEN narration ELSE None
        ELSE LET music_clip ==
                     [kind |-> "music", source |-> m,
                      duration |-> MusicLayer(m, target_duration),
                      gain |-> effective_music_volume(has_voice, music_volume)]
             IN  IF has_voice
                 THEN IF fault = "composite"
                      THEN narration
                      ELSE [kind |-> "composite", clips |-> <<narration, music_clip>>,
                            duration |-> Max(narration.duration, music_clip.duration)]
                 ELSE music_clip

\* music_volume arguments, in percent
MusicVolumes == {-10, 0, 5, 50}

MixInputs ==
    [narration : {None} \cup {[kind |-> "narration", duration |-> 10 * d] : d \in 1..MaxDur},
     total_video_duration : {10 * d : d \in 1..MaxDur},
     music : [file : {"absent", "unreadable"}, duration : {0}],
     music_volume : MusicVolumes,
     fault : {"none"}]
    \cup
    [narration : {None} \cup {[kind |-> "narration", duration |-> 10 * d] : d \in 1..MaxDur},
     total_video_duration : {10 * d : d \in 1..MaxDur},
     music : [file : {"loaded"}, duration : {0, 5, 10 * (MaxDur + 1)}],
     music_volume : MusicVolumes,
     fault : {"none", "loop", "composite"}]

InitMix ==
    /\ fn_pc = "call"
    /\ fn_input \in MixInputs
    /\ fn_result = None
    /\ Idle /\ JobIdle /\ MarkIdle

\* the background-music block of render_final_video on its own
MixBackgroundMusic ==
    /\ fn_pc = "call"
    /\ LET target_duration ==
               IF fn_input.narration # None
               THEN fn_input.narration.duration
               ELSE fn_input.total_video_duration
       IN  fn_result' = [final_audio_composite |->
                            mix_background_music(fn_input.narration, target_duration,
                                                 fn_input.music, fn_input.music_volume,
                                                 fn_input.fault)]
    /\ fn_pc' = "returned"
    /\ UNCHANGED <<fn_input, sceneVars, jobVars, markVars>>

NextMix == MixBackgroundMusic

SpecMix == InitMix /\ [][NextMix]_vars

MixMusic ==
    /\ pc = "music"
    /\ \E m \in MusicDurs, music_ok \in BOOLEAN, music_volume \in MusicVolumes :
         LET target_duration ==
                 IF full_audio_track THEN total_audio_duration ELSE total_video_duration
             narration == [present |-> full_audio_track,
                           duration |-> total_audio_duration, music |-> FALSE]
         IN  IF m > 0 /\ music_ok THEN
                 LET layer == MusicLayer(m, target_duration)
                 IN  /\ music' = [kind |-> "music", source |-> m, duration |-> layer,
                                  gain |-> effective_music_volume(full_audio_track,
                                                                  music_volume)]
                     /\ final_audio_composite' =
                            [present |-> TRUE,
                             duration |-> IF full_audio_track
                                          THEN Max(total_audio_duration, layer)
                                          ELSE layer,
                             music |-> TRUE]
             ELSE
                 /\ music' = None
                 /\ final_audio_composite' = narration
    /\ pc' = "sfx"
    /\ UNCHANGED <<sceneVars, markVars, unitVars, scenes, idx, clips, final_clips, full_audio_clips,
                   full_audio_track, total_audio_duration, video_only_clips,
                   crossfade_enabled, effective_crossfade, total_video_duration,
                   loops_needed, looped_duration, final_clip, encodes, error,
                   transition_sfx, open_handles>>

\* the times where a loaded narration clip ends, the last clip excluded
transition_cut_points(audio_clips) ==
    IF Len(audio_clips) > 1
    THEN [k \in 1..(Len(audio_clips) - 1) |-> SumSeq(SubSeq(audio_clips, 1, k))]
    ELSE <<>>

\* an effect is placed wherever it starts before the end
SfxFitsStart(cut_point, sfx_duration, target_duration) == cut_point <= target_duration

\* cut_point + sfx_duration <= target_duration
SfxFits(cut_point, sfx_duration, target_duration) ==
    cut_point + sfx_duration <= target_duration

\* transition.mp3 overlaid at the cut points; d: its length, 0 when the file is
\* absent; sfx_ok: loading and mixing do not raise
MixSfx ==
    /\ pc = "sfx"
    /\ \E d \in SfxDurs, sfx_ok \in BOOLEAN :
         LET cuts == transition_cut_points(full_audio_clips)
             target_duration ==
                 IF full_audio_track THEN total_audio_duration ELSE total_video_duration
             starts == SelectSeq(cuts, LAMBDA b : SfxFits(b, d, target_duration))
         IN  IF final_audio_composite.present /\ cuts # <<>> /\ d > 0 /\ sfx_ok THEN
                 /\ transition_sfx' = [duration |-> d, starts |-> starts]
                 /\ final_audio_composite' =
                        IF starts = <<>> THEN final_audio_composite
                        ELSE [final_audio_composite EXCEPT
                                 !.duration = Max(@, starts[Len(starts)] + d)]
             ELSE
                 /\ (d = 0 => sfx_ok)
                 /\ UNCHANGED <<transition_sfx, final_audio_composite>>
    /\ pc' = "attach"
    /\ UNCHANGED <<sceneVars, markVars, unitVars, scenes, idx, clips, final_clips, full_audio_clips,
                   full_audio_track, total_audio_duration, video_only_clips,
                   crossfade_enabled, effective_crossfade, total_video_duration,
                   loops_needed, looped_duration, music, final_clip, encodes, error,
                   open_handles>>

\* a final clip conformed to the mixed audio instead of the narration
AttachedDurationOfMix(T, mix_duration) == mix_duration

\* final_video_clip.set_duration(total_audio_duration)
AttachedDuration(T, mix_duration) == T

\* set_audio and set_duration(total_audio_duration), or set_duration(V) without audio
AttachAudio ==
    /\ pc = "attach"
    /\ IF final_audio_composite.present /\ final_audio_composite.duration > 0
       THEN /\ final_clip' = [final_clip EXCEPT !.audio = TRUE,
                                                !.duration =
                                                    AttachedDuration(total_audio_duration,
                                                        final_audio_composite.duration)]
            /\ open_handles' = {h \in open_handles : h[1] # "narration"}
       ELSE IF final_audio_composite.present
       THEN UNCHANGED <<final_clip, open_handles>>
       ELSE /\ final_clip' = [final_clip EXCEPT !.duration = total_video_duration]
            /\ UNCHANGED open_handles
    /\ pc' = "branding"
    /\ UNCHANGED <<sceneVars, markVars, unitVars, scenes, idx, clips, final_clips, full_audio_clips,
                   full_audio_track, total_audio_duration, video_only_clips,
                   crossfade_enabled, effective_crossfade, total_video_duration,
                   loops_needed, looped_duration, music, final_audio_composite, encodes,
                   error, transition_sfx>>

\* subscribe overlay, intro and outro; subscribe: the overlay file exists and loads;
\* intro, outro: length of the prepared branding clip, 0 when absent or not loadable;
\* concat_ok: concatenating intro + body + outro does not raise
Branding ==
    /\ pc = "branding"
    /\ \E add_branding \in BOOLEAN, subscribe \in BOOLEAN, intro \in BrandDurs,
          outro \in BrandDurs, concat_ok \in BOOLEAN :
         IF ~add_branding THEN
             /\ concat_ok /\ ~subscribe /\ intro = 0 /\ outro = 0
             /\ pc' = "watermark"
             /\ UNCHANGED <<final_clip, total_video_duration, error, open_handles>>
         ELSE
             LET overlay_start == (total_video_duration * 2) \div 3
                 overlay_duration == Min(SubscribeMax, total_video_duration - overlay_start)
                 with_subscribe ==
                     IF subscribe /\ overlay_duration > SubscribeMin
                     THEN [final_clip EXCEPT !.subscribe = TRUE,
                                             !.duration = total_video_duration]
                     ELSE final_clip
                 concat_sequence ==
                     (IF intro > 0 THEN <<intro>> ELSE <<>>)
                        \o <<with_subscribe.duration>>
                        \o (IF outro > 0 THEN <<outro>> ELSE <<>>)
                 valid_concat_sequence == SelectSeq(concat_sequence, LAMBDA d : d > 0)
                 branding_clips_to_close ==
                     (IF intro > 0 THEN {<<"intro", 0>>} ELSE {})
                        \cup (IF outro > 0 THEN {<<"outro", 0>>} ELSE {})
             IN  IF Len(concat_sequence) > 1 /\ Len(valid_concat_sequence) > 1 THEN
                     IF concat_ok THEN
                         /\ final_clip' =
                                [with_subscribe EXCEPT
                                    !.intro = intro, !.outro = outro,
                                    !.duration =
                                        concatenate_videoclips(valid_concat_sequence, 0)]
                         /\ total_video_duration' = final_clip'.duration
                         /\ open_handles' = open_handles \cup branding_clips_to_close
                         /\ pc' = "watermark" /\ error' = error
                     ELSE
                         /\ RaiseHolding("BrandingConcatFailed",
                                         open_handles \cup branding_clips_to_close)
                         /\ final_clip' = with_subscribe
                         /\ UNCHANGED total_video_duration
                 ELSE
                     /\ concat_ok
                     /\ final_clip' = with_subscribe
                     /\ open_handles' = open_handles \cup branding_clips_to_close
                     /\ pc' = "watermark"
                     /\ UNCHANGED <<total_video_duration, error>>
    /\ UNCHANGED <<sceneVars, markVars, unitVars, scenes, idx, clips, final_clips, full_audio_clips,
                   full_audio_track, total_audio_duration, video_only_clips,
                   crossfade_enabled, effective_crossfade, loops_needed, looped_duration,
                   music, final_audio_composite, encodes, transition_sfx>>

\* the watermark composite; any error inside is caught and the job goes on without it
Watermark ==
    /\ pc = "watermark"
    /\ \E wanted \in BOOLEAN, watermark_ok \in BOOLEAN :
         /\ (~wanted => watermark_ok)
         /\ final_clip' = IF wanted /\ watermark_ok
                          THEN [final_clip EXCEPT !.watermark = TRUE]
                          ELSE final_clip
    /\ pc' = "encode"
    /\ UNCHANGED <<sceneVars, markVars, unitVars, scenes, idx, clips, final_clips, full_audio_clips,
                   full_audio_track, total_audio_duration, video_only_clips,
                   crossfade_enabled, effective_crossfade, total_video_duration,
                   loops_needed, looped_duration, music, final_audio_composite, encodes,
                   error, transition_sfx, open_handles>>

\* "Liberando recursos": the scene clips of final_clips with their originals and
\* the branding clips are closed
Release(handles) ==
    {h \in handles :
        h[1] \notin {"clip", "original_video", "original_audio", "intro", "outro"}}

\* an encode that is tried again after an error
EncodeRetryTarget == "encode"

\* except AttributeError ... raise, then the except clause of the function: an encode
\* error ends the job
EncodeFailureTarget == "failed"

\* the final validation and write_videofile
Encode ==
    /\ pc = "encode"
    /\ IF final_clip = None \/ final_clip.duration <= 0 THEN
           Raise("InvalidFinalClip") /\ UNCHANGED encodes
       ELSE
           /\ encodes' = encodes + 1
           /\ \E encode_ok \in BOOLEAN :
                IF encode_ok THEN /\ pc' = "done" /\ error' = error
                                  /\ open_handles' = Release(open_handles)
                             ELSE /\ pc' = EncodeFailureTarget
                                  /\ error' = "EncodeFailed"
                                  /\ open_handles' = CloseClips(open_handles)
    /\ UNCHANGED <<sceneVars, markVars, unitVars, scenes, idx, clips, final_clips, full_audio_clips,
                   full_audio_track, total_audio_duration, video_only_clips,
                   crossfade_enabled, effective_crossfade, total_video_duration,
                   loops_needed, looped_duration, music, final_audio_composite,
                   final_clip, transition_sfx>>

Next ==
    \/ ProcessScene
    \/ FilterClips
    \/ LoadAudio
    \/ Concatenate
    \/ Conform
    \/ MixMusic
    \/ MixSfx
    \/ AttachAudio
    \/ Branding
    \/ Watermark
    \/ Encode

Spec == Init /\ [][Next]_vars

(***************************************************************************)
(* Properties.                                                             *)
(***************************************************************************)
\* positions of render_final_video after the master narration track was built
AudioBuilt == pc \notin {"idle", "scenes", "audio"} /\ final_clips # <<>>

\* scene indexes (0-based, increasing) whose assembly succeeds
RECURSIVE SurvivorsFrom(_, _)
SurvivorsFrom(ss, i) ==
    IF i >= Len(ss) THEN <<>>
    ELSE (IF process_scene(ss[i + 1], i, JobOpts) # None THEN <<i>> ELSE <<>>)
            \o SurvivorsFrom(ss, i + 1)

Survivors == SurvivorsFrom(scenes, 0)

\* narration lengths of the scenes whose assembly succeeded
SurvivorNarration == [k \in 1..Len(Survivors) |-> scenes[Survivors[k] + 1].audio_dur]

\* all scenes were processed
Assembled == pc # "idle" /\ idx = Len(scenes)

\* C1: for a job with at least one assembled scene, the master narration duration T
\* is the sum of the narration durations of exactly the scenes that were assembled;
\* dropped scenes add nothing.
C1_MasterIsSurvivorNarration ==
    AudioBuilt => total_audio_duration = SumSeq(SurvivorNarration)

\* C2 as stated: whenever the encode is invoked with narration present, the clip it
\* is given lasts exactly T, whatever optional steps ran.
C2_EncodedDurationIsT ==
    (encodes > 0 /\ full_audio_track) => final_clip.duration = total_audio_duration

\* C2 as amended: whenever the encode is invoked with narration present, the clip it
\* is given lasts T plus the lengths of the branding intro and outro that were
\* concatenated around the body (exactly T when neither was), whether the visuals
\* were looped, trimmed or unchanged, with or without crossfade, subscribe overlay
\* and watermark.
C2_EncodedDurationIsTPlusBranding ==
    (encodes > 0 /\ full_audio_track) =>
        final_clip.duration = total_audio_duration + final_clip.intro + final_clip.outro

\* C2 witness: an encoded job whose visuals were looped, with music, subscribe
\* overlay, watermark and an intro.
C2_Witness ==
    /\ encodes > 0 /\ full_audio_track /\ loops_needed > 0 /\ music # None
    /\ final_clip.intro > 0 /\ final_clip.subscribe /\ final_clip.watermark
    /\ crossfade_enabled

C4_AllFailedIsFatal ==
    (Assembled /\ Survivors = <<>>) =>
        /\ encodes = 0
        /\ pc \in {"scenes", "failed"}
        /\ (pc = "failed" => error = "NoValidScenes")

\* C4 witness: a failed job of three scenes, each with narration but no visual.
C4_Witness ==
    /\ pc = "failed" /\ error = "NoValidScenes" /\ Len(scenes) = 3
    /\ \A i \in 1..3 : scenes[i].audio_exists /\ clips[i] = None

\* C5: no scene composite returned by process_scene has a child that is None or has
\* zero or negative duration; a caption of a word with end <= start is never a child.
C5_NoInvalidChild ==
    (sc_pc = "returned" /\ sc_result # None) =>
        \A k \in 1..Len(sc_result.layers) :
            sc_result.layers[k] # None /\ sc_result.layers[k].duration > 0

\* C6: a scene with narration of positive duration D whose visual is a still image is
\* assembled from the animated image of duration D, not dropped.
C6_ImageSceneAssembled ==
    (sc_pc = "returned" /\ sc_scene.audio_exists /\ sc_scene.audio_dur > 0
        /\ sc_scene.visual = "image") =>
        /\ sc_result # None
        /\ sc_result.duration = sc_scene.audio_dur
        /\ sc_result.layers[1].kind = "image"

\* C7: a clip returned by process_scene for narration duration D lasts exactly D and
\* its background is the visual cut from 0 to min(D, visual duration).
C7_SceneLastsAsNarration ==
    (sc_pc = "returned" /\ sc_result # None) =>
        /\ sc_result.duration = sc_scene.audio_dur
        /\ sc_result.layers[1].start = 0
        /\ sc_result.layers[1].duration = Min(sc_scene.audio_dur, sc_scene.visual_dur)

\* C7 witness: an assembled scene whose visual is shorter than its narration.
C7_Witness ==
    /\ sc_pc = "returned" /\ sc_result # None
    /\ sc_scene.visual_dur < sc_scene.audio_dur
    /\ Len(sc_result.layers) > 1

\* C8: whenever music is mixed with the narration, the music layer lasts exactly T and
\* the mixed audio does not extend past T.
C8_MusicLayerIsT ==
    (music # None /\ full_audio_track) =>
        /\ music.duration = total_audio_duration
        /\ final_audio_composite.duration <= total_audio_duration

\* C9: no failure of a music, branding or watermark step makes the job fail; a job
\* fails only for lack of scenes, a failed scene concatenation or a failed encode.
C9_OptionalStepsNeverFatal ==
    pc = "failed" =>
        error \in {"NoValidScenes", "ConcatFailed", "InvalidFinalClip", "EncodeFailed"}

\* C10: whenever the looping branch is taken (0 < V < T), the repetitions chosen give
\* a looped sequence at least as long as T before the trim.
C10_LoopCoversNarration ==
    loops_needed > 0 => looped_duration >= total_audio_duration

\* C10 witness: a loop of several repetitions that overshoots T.
C10_Witness ==
    /\ loops_needed >= 2 /\ looped_duration > total_audio_duration
    /\ total_audio_duration % (looped_duration \div loops_needed) # 0

\* every scene of the job was assembled
AllAssembled == \A i \in 1..Len(scenes) : process_scene(scenes[i], i - 1, JobOpts) # None

\* positions of render_final_video after the visuals were looped or trimmed
Conformed == pc \in {"music", "sfx", "attach", "branding", "watermark", "encode", "done"}

\* C11: when every scene is assembled and every visual is shorter than its narration,
\* the concatenated visuals last the sum of the visual lengths, the sequence is then
\* looped, and the conformed visuals last exactly T.
C11_ShortVisualsAreLooped ==
    (AllAssembled /\ \A i \in 1..Len(scenes) : scenes[i].visual_dur < scenes[i].audio_dur) =>
        /\ (pc = "conform" =>
               total_video_duration =
                   SumSeq([i \in 1..Len(scenes) |-> scenes[i].visual_dur]))
        /\ (Conformed => loops_needed > 0)
        /\ (pc = "music" => total_video_duration = total_audio_duration)

\* C12: when every scene is assembled and every visual is at least as long as its
\* narration, the looping branch is never taken and the clip handed to the encode
\* lasts T, for every render configuration, crossfade included.
C12_LongVisualsNeverLoop ==
    (AllAssembled /\ \A i \in 1..Len(scenes) : scenes[i].visual_dur >= scenes[i].audio_dur) =>
        /\ loops_needed = 0
        /\ (encodes > 0 => final_clip.duration = total_audio_duration)

\* C13: for every watermark position, canvas and element size, the computed position
\* satisfies 0 <= x <= canvas width and 0 <= y <= canvas height.
C13_PositionInsideCanvas ==
    wm_pc = "returned" =>
        /\ 0 <= wm_position[1] /\ wm_position[1] <= wm_input.canvas[1]
        /\ 0 <= wm_position[2] /\ wm_position[2] <= wm_input.canvas[2]

\* the call of process_scene got as far as the caption step
CaptionStepRan ==
    /\ sc_pc = "returned" /\ sc_opts.use_subtitles /\ sc_scene.audio_exists
    /\ sc_scene.visual # "none" /\ sc_scene.fault # "audio_load"

\* C14: for any word list of the alignment step, every karaoke overlay has positive
\* duration and no two overlays of the same caption line overlap in time.
C14_KaraokePositiveAndDisjoint ==
    CaptionStepRan =>
        LET overlays == generate_karaoke_subtitles(sc_scene.words, sc_opts.textOK)
        IN  /\ \A k \in 1..Len(overlays) : overlays[k].duration > 0
            /\ \A j, k \in 1..Len(overlays) :
                   (j < k /\ (j - 1) \div words_per_line = (k - 1) \div words_per_line) =>
                       \/ overlays[j].start + overlays[j].duration <= overlays[k].start
                       \/ overlays[k].start + overlays[k].duration <= overlays[j].start

C16_FadeAtMostFortyPercent ==
    (crossfade_enabled /\ video_only_clips # <<>>) =>
        10 * effective_crossfade <=
            4 * MinSeq([k \in 1..Len(video_only_clips) |-> video_only_clips[k].duration])

\* C17: when the job has ended, with success or with an error, every media handle
\* opened during the job has been closed.
C17_AllHandlesClosed ==
    pc \in {"done", "failed"} => open_handles = {}

StageOf(p) ==
    IF p = "scenes" THEN 1
    ELSE IF p \in {"audio", "concat", "conform", "music", "sfx", "attach"} THEN 2
    ELSE IF p \in {"branding", "watermark", "encode"} THEN 3
    ELSE 4

\* C19: every step of a job goes on to the same or a later stage and none starts from
\* an ended job; Mixing starts with all scenes processed, Rendering with the master
\* audio built; a job ends succeeded without an error or failed with one; the encode
\* is invoked at most once.
C19_StagesInOrder ==
    [][/\ StageOf(pc) < 4
       /\ StageOf(pc') >= StageOf(pc)
       /\ (StageOf(pc') \in {2, 3} => idx' = Len(scenes'))
       /\ (StageOf(pc') = 3 => final_audio_composite' # None)
       /\ (pc' = "done" => encodes' = 1 /\ error' = "none")
       /\ (pc' = "failed" => error' # "none")
       /\ encodes' <= 1]_vars

\* C19 witness: a job that failed in its only encode.
C19_Witness ==
    pc = "failed" /\ error = "EncodeFailed" /\ encodes = 1

\* the times where a narration clip of the master track ends, the last one excluded
SceneBoundaries ==
    {SumSeq(SubSeq(full_audio_clips, 1, k)) : k \in 1..(Len(full_audio_clips) - 1)}

\* C20: when the transition effect was mixed in, an effect starts at a scene boundary
\* b exactly when b + effect duration <= T, and nowhere else.
C20_SfxAtFittingBoundaries ==
    transition_sfx # None =>
        {transition_sfx.starts[k] : k \in 1..Len(transition_sfx.starts)} =
            {b \in SceneBoundaries : b + transition_sfx.duration <= total_audio_duration}

\* C20 witness: three narration clips, an effect at the first boundary and none at
\* the second, where it would end after T.
C20_Witness ==
    /\ transition_sfx # None /\ Len(full_audio_clips) = 3
    /\ Len(transition_sfx.starts) = 1
    /\ transition_sfx.starts[1] + transition_sfx.duration <= total_audio_duration

(***************************************************************************)
(* Specification SpecFilter: the last filter of render_final_video before  *)
(* concatenate_videoclips, on a clip list of any content.                  *)
(***************************************************************************)
\* what a list entry can be: None, or an object that may lack the duration or the
\* get_frame attribute; duration is <<>> for the value None, <<d>> for the number d
ClipLikes(i) ==
    {None} \cup
    {[id |-> i, has_duration |-> FALSE, has_get_frame |-> hg, duration |-> <<>>] :
        hg \in BOOLEAN} \cup
    {[id |-> i, has_duration |-> TRUE, has_get_frame |-> hg, duration |-> d] :
        hg \in BOOLEAN, d \in {<<>>, <<-10>>, <<0>>, <<10>>}}

ClipLists ==
    UNION {{s \in [1..n -> UNION {ClipLikes(i) : i \in 1..n}] :
                \A i \in 1..n : s[i] \in ClipLikes(i)} : n \in 0..MaxScenes}

\* a filter that does not look for get_frame
ClipPassesWithoutFrameCheck(clip) ==
    /\ clip # None
    /\ clip.has_duration
    /\ clip.duration # <<>> /\ ~(clip.duration[1] <= 0)

\* one pass of the loop body: None is skipped, an entry without duration or get_frame
\* is skipped, duration <= 0 is skipped, a comparison that raises (duration None) is
\* caught and the entry skipped
ClipPasses(clip) ==
    /\ clip # None
    /\ ~(~clip.has_duration \/ ~clip.has_get_frame)
    /\ clip.duration # <<>> /\ ~(clip.duration[1] <= 0)

RECURSIVE final_valid_clips(_)
final_valid_clips(cs) ==
    IF cs = <<>> THEN <<>>
    ELSE IF ClipPasses(Head(cs))
         THEN <<Head(cs)>> \o final_valid_clips(Tail(cs))
         ELSE final_valid_clips(Tail(cs))

InitFilter ==
    /\ fn_pc = "call"
    /\ fn_input \in ClipLists
    /\ fn_result = None
    /\ Idle /\ JobIdle /\ MarkIdle

\* the filter, the raise on an empty result and the call of concatenate_videoclips
FilterBeforeConcat ==
    /\ fn_pc = "call"
    /\ LET valid == final_valid_clips(fn_input)
       IN  fn_result' =
               IF Len(valid) = 0
               THEN [error |-> "ValueError", concat_called |-> FALSE, clips |-> <<>>]
               ELSE [error |-> "none", concat_called |-> TRUE, clips |-> valid]
    /\ fn_pc' = "returned"
    /\ UNCHANGED <<fn_input, sceneVars, jobVars, markVars>>

NextFilter == FilterBeforeConcat

SpecFilter == InitFilter /\ [][NextFilter]_vars

\* C21: the clips handed to the concatenation are exactly the entries of the input
\* list that are not None, have a duration and a get_frame attribute and a duration
\* above 0, in their input order; when there is none, the concatenation is not called
\* and an error is raised.
C21_FilterKeepsExactlyValidClips ==
    fn_pc = "returned" =>
        LET good == {i \in 1..Len(fn_input) :
                        /\ fn_input[i] # None
                        /\ fn_input[i].has_duration /\ fn_input[i].has_get_frame
                        /\ fn_input[i].duration # <<>>
                        /\ fn_input[i].duration[1] > 0}
            out == fn_result.clips
        IN  /\ Len(out) = Cardinality(good)
            /\ \A k \in 1..Len(out) : out[k].id \in good /\ out[k] = fn_input[out[k].id]
            /\ \A k \in 1..(Len(out) - 1) : out[k].id < out[k + 1].id
            /\ (good = {} <=> fn_result.error = "ValueError")
            /\ (good = {} <=> ~fn_result.concat_called)

\* C21 witness: a list of three with a None and an entry of duration 0, one survivor.
C21_Witness ==
    /\ fn_pc = "returned" /\ Len(fn_input) = 3
    /\ fn_input[1] = None /\ fn_input[2] # None /\ fn_input[2].duration = <<0>>
    /\ Len(fn_result.clips) = 1 /\ fn_result.clips[1].id = 3

(***************************************************************************)
(* Specification SpecComposite: the composite constructors video_editor    *)
(* imports, called on a list that may hold None.                           *)
(***************************************************************************)
\* a list entry: None or a clip of d seconds
Children(i) == {None} \cup {[id |-> i, duration |-> 10 * d] : d \in 1..MaxDur}

ChildLists ==
    UNION {{s \in [1..n -> UNION {Children(i) : i \in 1..n}] :
                \A i \in 1..n : s[i] \in Children(i)} : n \in 1..MaxScenes}

RECURSIVE LongestOf(_)
LongestOf(cs) == IF cs = <<>> THEN 0 ELSE Max(Head(cs).duration, LongestOf(Tail(cs)))

\* CompositeVideoClip as imported from moviepy.editor: the constructor reads size, end
\* and audio of every entry, which raises AttributeError on None
CompositeVideoClip(cs) ==
    IF \E i \in 1..Len(cs) : cs[i] = None
    THEN [kind |-> "AttributeError"]
    ELSE [kind |-> "CompositeVideoClip", clips |-> cs, duration |-> LongestOf(cs)]

\* CompositeAudioClip as imported from moviepy.editor: the constructor reads end and
\* nchannels of every entry, which raises AttributeError on None
CompositeAudioClip(cs) ==
    IF \E i \in 1..Len(cs) : cs[i] = None
    THEN [kind |-> "AttributeError"]
    ELSE [kind |-> "CompositeAudioClip", clips |-> cs, duration |-> LongestOf(cs)]

InitComposite ==
    /\ fn_pc = "call"
    /\ fn_input \in [cls : {"CompositeVideoClip", "CompositeAudioClip"}, clips : ChildLists]
    /\ fn_result = None
    /\ Idle /\ JobIdle /\ MarkIdle

\* src.video_editor.CompositeVideoClip(clips) or src.video_editor.CompositeAudioClip(clips)
Construct ==
    /\ fn_pc = "call"
    /\ fn_result' = IF fn_input.cls = "CompositeVideoClip"
                    THEN CompositeVideoClip(fn_input.clips)
                    ELSE CompositeAudioClip(fn_input.clips)
    /\ fn_pc' = "returned"
    /\ UNCHANGED <<fn_input, sceneVars, jobVars, markVars>>

NextComposite == Construct

SpecComposite == InitComposite /\ [][NextComposite]_vars

\* C22: a composite constructed from one valid clip and one None does not raise, and
\* its children are exactly the clips of the list that are not None.
C22_NoneChildFilteredAtConstruction ==
    (/\ fn_pc = "returned" /\ Len(fn_input.clips) = 2
     /\ Cardinality({i \in 1..2 : fn_input.clips[i] = None}) = 1)
    => /\ fn_result.kind = fn_input.cls
       /\ fn_result.clips = SelectSeq(fn_input.clips, LAMBDA c : c # None)

\* the audio clips that go into the mix and are valid: not None, duration above 0
ValidMixInputs ==
    (IF fn_input.narration # None /\ fn_input.narration.duration > 0
     THEN {"narration"} ELSE {}) \cup
    (IF fn_input.music.file = "loaded" /\ fn_input.music.duration > 0
     THEN {"music"} ELSE {})

\* C23: when a music file is given and no library call raises on valid clips, two
\* valid clips give a composite of exactly the two, one valid clip is the result
\* itself, and with no valid clip the result is one second of silence, never None.
C23_OnlyValidAudioIsMixed ==
    (fn_pc = "returned" /\ fn_input.music.file # "absent" /\ fn_input.fault = "none")
    => LET out == fn_result.final_audio_composite
       IN  /\ out # None
           /\ (ValidMixInputs = {"narration", "music"} =>
                  /\ out.kind = "composite" /\ Len(out.clips) = 2
                  /\ out.clips[1] = fn_input.narration
                  /\ out.clips[2].kind = "music"
                  /\ out.clips[2].source = fn_input.music.duration)
           /\ (ValidMixInputs = {"narration"} => out = fn_input.narration)
           /\ (ValidMixInputs = {"music"} =>
                  out.kind = "music" /\ out.source = fn_input.music.duration)
           /\ (ValidMixInputs = {} => out.kind = "silence" /\ out.duration = 10)

\* the music layer inside the mixed audio, None when there is none
MixedMusic ==
    LET out == fn_result.final_audio_composite
    IN  IF out = None THEN None
        ELSE IF out.kind = "music" THEN out
        ELSE IF out.kind = "composite" THEN out.clips[2]
        ELSE None

C24_EveryWordHighlighted ==
    CaptionStepRan =>
        LET overlays == generate_karaoke_subtitles(sc_scene.words, sc_opts.textOK)
        IN  overlays # <<>> =>
                /\ Len(overlays) = Len(sc_scene.words)
                /\ \A k \in 1..Len(overlays) :
                       /\ overlays[k].start = sc_scene.words[k].start
                       /\ overlays[k].start + overlays[k].duration = sc_scene.words[k].end
                       /\ overlays[k].active

(***************************************************************************)
(* Specification SpecWait: esperar_archivo, one pass of its loop per step. *)
(***************************************************************************)
\* what one pass can find: no file, a file of size 0, a file whose stat() raises
\* OSError or PermissionError, a file with content
FileStates == {"missing", "empty", "locked", "ready"}

\* fn_input: intentos and what the file looks like at each pass
WaitInputs ==
    UNION {[intentos : {n}, file : [1..n -> FileStates]] : n \in 0..MaxTries}

\* a pass where the error of stat() leaves the function
check_file_unguarded(state) ==
    IF state = "ready" THEN "True"
    ELSE IF state = "locked" THEN "False"
    ELSE "retry"

\* one pass of the loop body: return True on size > 0; an empty file, a caught
\* stat() error and a missing file all go on to time.sleep(espera)
check_file(state) ==
    IF state = "missing" THEN "retry"
    ELSE IF state = "locked" THEN "retry"
    ELSE IF state = "ready" THEN "True"
    ELSE "retry"

InitWait ==
    /\ fn_pc = "loop"
    /\ fn_input \in WaitInputs
    /\ fn_result = [checks |-> 0, value |-> "pending"]
    /\ Idle /\ JobIdle /\ MarkIdle

\* for i in range(intentos): one existence check
WaitCheck ==
    /\ fn_pc = "loop"
    /\ fn_result.checks < fn_input.intentos
    /\ LET i == fn_result.checks + 1
           outcome == check_file(fn_input.file[i])
       IN  IF outcome = "retry"
           THEN fn_result' = [checks |-> i, value |-> "pending"] /\ fn_pc' = "loop"
           ELSE fn_result' = [checks |-> i, value |-> outcome] /\ fn_pc' = "returned"
    /\ UNCHANGED <<fn_input, sceneVars, jobVars, markVars>>

\* the loop is exhausted: return False
WaitGiveUp ==
    /\ fn_pc = "loop"
    /\ fn_result.checks >= fn_input.intentos
    /\ fn_result' = [fn_result EXCEPT !.value = "False"]
    /\ fn_pc' = "returned"
    /\ UNCHANGED <<fn_input, sceneVars, jobVars, markVars>>

NextWait == WaitCheck \/ WaitGiveUp

\* the loop body has no blocking call but time.sleep: a pass that can run does run
SpecWait == InitWait /\ [][NextWait]_vars /\ WF_vars(NextWait)

\* the passes that have been made
ChecksDone == 1..fn_result.checks

\* C25: esperar_archivo returns after at most `intentos` existence checks; it returns
\* True only when a check found the file with size > 0, and False when every one of
\* the `intentos` checks found it missing, empty or unreadable; a stat error at one
\* check does not end the retries.
C25_WaitTerminatesWithRightAnswer ==
    /\ <>(fn_pc = "returned")
    /\ [](fn_result.checks <= fn_input.intentos)
    /\ []((fn_pc = "returned" /\ fn_result.value = "True") =>
             \E k \in ChecksDone : fn_input.file[k] = "ready")
    /\ []((fn_pc = "returned" /\ \A k \in 1..fn_input.intentos : fn_input.file[k] # "ready")
             => fn_result.value = "False" /\ fn_result.checks = fn_input.intentos)
    /\ []((fn_pc = "returned" /\ fn_result.value = "False") =>
             \A k \in 1..fn_input.intentos : fn_input.file[k] # "ready")

\* C25 witness: the file is locked at the first check and ready at the third.
C25_Witness ==
    /\ fn_pc = "returned" /\ fn_result.value = "True" /\ fn_result.checks = 3
    /\ fn_input.file[1] = "locked" /\ fn_input.file[2] = "empty"

\* where the visual of the k-th concatenated clip starts in a hard-cut sequence
VisualStart(k) ==
    SumSeq([j \in 1..(k - 1) |-> video_only_clips[j].duration])

\* where the narration of the scene with index i starts in the master track: after
\* the loaded audio files of all lower indexes
NarrationStart(i) == SumSeq(MasterAudioFiles(SubSeq(scenes, 1, i)))

\* C27: with hard cuts, the visual of every surviving scene starts where the
\* narration of that scene starts in the master track, whichever scenes were dropped.
C27_VisualStartsWithNarration ==
    (pc \in {"conform", "music", "sfx", "attach", "branding", "watermark", "encode", "done"}
        /\ ~crossfade_enabled)
    => \A k \in 1..Len(video_only_clips) :
           VisualStart(k) = NarrationStart(video_only_clips[k].index)

\* C28: while the encode has not finished, the narration clips of the master track
\* that the final clip plays are still open; they are closed only after the encode.
C28_NoCloseBeforeEncodeEnds ==
    (pc \in {"branding", "watermark", "encode"} /\ final_clip # None /\ final_clip.audio)
    => NarrationHandles(full_audio_clips) \subseteq open_handles

(***************************************************************************)
(* Specification SpecGenerate: generate_video from the visual check to the *)
(* scene loop of render_final_video.                                       *)
(***************************************************************************)
\* scene['video_path']: None, a path with no file behind it, a path to a file, or an
\* object that is not a string
VideoPaths == {"None", "missing", "file", "clip"}

\* script_data: each scene with the index it had when its audio and visual were made
ScriptData ==
    UNION {{s \in [1..n -> [index : 0..(n - 1), video_path : VideoPaths]] :
                \A i \in 1..n : s[i].index = i - 1} : n \in 1..MaxScenes}

\* scenes_with_visual and valid_scenes: video_path is not None and, when it is a
\* string, os.path.exists(video_path)
HasValidVisual(scene) ==
    /\ scene.video_path # "None"
    /\ (scene.video_path \in {"missing", "file"} => scene.video_path = "file")

\* the index process_scene builds audio_{idx}.mp3 and scene_{idx:02d}_video.mp4
\* from: the idx argument, which the loop takes from enumerate(scenes)
FileIndex(position, scene) == position

InitGenerate ==
    /\ fn_pc = "filter"
    /\ fn_input \in ScriptData
    /\ fn_result = [scenes |-> <<>>, assembled |-> <<>>, error |-> "none"]
    /\ Idle /\ JobIdle /\ MarkIdle

\* the visual check of generate_video: scenes without a valid visual are removed
\* from script_data, and with none left the job is refused
FilterScenes ==
    /\ fn_pc = "filter"
    /\ LET valid_scenes == SelectSeq(fn_input, HasValidVisual)
       IN  IF valid_scenes = <<>>
           THEN /\ fn_result' = [fn_result EXCEPT !.error = "ValueError"]
                /\ fn_pc' = "failed"
           ELSE /\ fn_result' = [fn_result EXCEPT !.scenes = valid_scenes]
                /\ fn_pc' = "render"
    /\ UNCHANGED <<fn_input, sceneVars, jobVars, markVars>>

\* one pass of `for idx, scene in enumerate(scenes)`: process_scene(scene, idx, ...)
RenderScene ==
    /\ fn_pc = "render"
    /\ Len(fn_result.assembled) < Len(fn_result.scenes)
    /\ LET position == Len(fn_result.assembled)
           scene == fn_result.scenes[position + 1]
       IN  fn_result' =
               [fn_result EXCEPT !.assembled =
                   Append(@, [scene |-> scene.index,
                              file_index |-> FileIndex(position, scene)])]
    /\ UNCHANGED <<fn_pc, fn_input, sceneVars, jobVars, markVars>>

NextGenerate == FilterScenes \/ RenderScene

SpecGenerate == InitGenerate /\ [][NextGenerate]_vars

\* C29: after generate_video removed the scenes without a valid visual, every
\* remaining scene is assembled from the files of its own original index.
C29_FilesOfOwnScene ==
    \A k \in 1..Len(fn_result.assembled) :
        fn_result.assembled[k].file_index = fn_result.assembled[k].scene

(***************************************************************************)
(* Specification SpecRepair: the final validation of render_final_video    *)
(* and the repair by limpiar_audio_invalido.                               *)
(***************************************************************************)
\* a clip is [duration, audio, clips]: audio is the set of what its audio track holds,
\* "master" for the attached master audio and "invalid" for a None or frame-less
\* entry of a CompositeAudioClip ({} for no audio); clips are the children of a
\* composite, <<>> for any other clip
AudioTracks == SUBSET {"master", "invalid"}

ChildClips ==
    {None} \cup [duration : Durs, audio : {{}, {"invalid"}}, clips : {<<>>}]

FinalClips ==
    [duration : Durs, audio : AudioTracks,
     clips : UNION {[1..n -> ChildClips] : n \in 0..MaxScenes}]

RECURSIVE validar_clip_recursivo(_)
validar_clip_recursivo(clip) ==
    IF clip = None THEN FALSE
    ELSE /\ \A i \in 1..Len(clip.clips) : validar_clip_recursivo(clip.clips[i])
         /\ "invalid" \notin clip.audio

\* the audio a CompositeVideoClip builds for itself: the audio of its children
ChildrenAudio(cs) == UNION {cs[i].audio : i \in 1..Len(cs)}

\* limpiar_audio_invalido: a composite is rebuilt as CompositeVideoClip(clips_limpios)
\* from its cleaned children that are not None; any other clip loses its whole audio
\* (without_audio) when that holds an invalid entry
RECURSIVE limpiar_audio_invalido(_)
limpiar_audio_invalido(clip) ==
    IF clip = None THEN None
    ELSE IF clip.clips # <<>> THEN
        LET limpios == [i \in 1..Len(clip.clips) |-> limpiar_audio_invalido(clip.clips[i])]
            clips_limpios == SelectSeq(limpios, LAMBDA c : c # None)
        IN  IF clips_limpios # <<>>
            THEN LET rebuilt == CompositeVideoClip(clips_limpios)
                 IN  IF rebuilt.kind = "AttributeError" THEN None
                     ELSE [duration |-> rebuilt.duration,
                           audio |-> ChildrenAudio(clips_limpios),
                           clips |-> clips_limpios]
            ELSE None
    ELSE IF "invalid" \in clip.audio
    THEN [clip EXCEPT !.audio = {}]
    ELSE clip

InitRepair ==
    /\ fn_pc = "call"
    /\ fn_input \in FinalClips
    /\ fn_result = None
    /\ Idle /\ JobIdle /\ MarkIdle

\* the recursive validation, the repair when it fails and the second validation
ValidateFinalClip ==
    /\ fn_pc = "call"
    /\ fn_result' =
           IF validar_clip_recursivo(fn_input)
           THEN [final_clip |-> fn_input, repaired |-> FALSE, error |-> "none"]
           ELSE LET limpio == limpiar_audio_invalido(fn_input)
                IN  IF limpio = None
                    THEN [final_clip |-> None, repaired |-> FALSE, error |-> "ValueError"]
                    ELSE IF ~validar_clip_recursivo(limpio)
                    THEN [final_clip |-> limpio, repaired |-> FALSE, error |-> "ValueError"]
                    ELSE [final_clip |-> limpio, repaired |-> TRUE, error |-> "none"]
    /\ fn_pc' = "returned"
    /\ UNCHANGED <<fn_input, sceneVars, jobVars, markVars>>

NextRepair == ValidateFinalClip

SpecRepair == InitRepair /\ [][NextRepair]_vars

====
